---- MODULE Spec2Model ----
(***************************************************************************)
(* ForceTorqueSensorDriver (ati_axia80_ethernet_python/ft_sensor.py):      *)
(* the UDP streaming driver of the ATI Axia80 force-torque sensor.         *)
(*                                                                         *)
(* Processes: one lifecycle caller (start()/stop()), one accessor caller   *)
(* (get_latest_reading()/get_latest_wrench()), and one _read_loop thread   *)
(* per start() that reached threading.Thread(...).start().                 *)
(***************************************************************************)
EXTENDS Integers, Sequences, FiniteSets, Bags, TLC

\* ------------------------------------------------------------------ bounds
\* loop threads the start() calls may spawn in all
MaxThreads == 2

\* ------------------------------------------------------- program constants
\* command_header = 0x1234
CommandHeader == 4660
\* len(data) == 36
PacketSize == 36
\* start(): command=0x0002
CmdStart == 2
\* stop(): command=0x0000
CmdStop == 0

\* Python's None, and a present value v, as sequences of length 0 and 1
None == <<>>
Some(v) == <<v>>

Threads == 1..MaxThreads
\* self.thread before start() ever assigned it (the attribute does not exist)
NoThread == 0
\* owners of self.lock
LockFree == 0
CallerId == -1
ReaderId == -2

\* ------------------------------------------------------------- wire format
\* byte k (0 = least significant) of the two's complement form of n
ByteOf(n, k) == (n \div (256 ^ k)) % 256

\* PackH in little-endian byte order, struct.pack('<H', n)
PackHLittle(n) == <<ByteOf(n, 0), ByteOf(n, 1)>>

\* struct.pack('!H', n)
PackH(n) == <<ByteOf(n, 1), ByteOf(n, 0)>>
\* struct.pack('!I', n) and struct.pack('!i', n)
PackI(n) == <<ByteOf(n, 3), ByteOf(n, 2), ByteOf(n, 1), ByteOf(n, 0)>>

\* struct.unpack('!I', b[i..i+3]); values below 2^31 only (see SensorSamples)
UnpackU32(b, i) == b[i] * 16777216 + b[i + 1] * 65536 + b[i + 2] * 256 + b[i + 3]
\* struct.unpack('!i', b[i..i+3])
UnpackI32(b, i) ==
    (IF b[i] >= 128 THEN b[i] - 256 ELSE b[i]) * 16777216
        + b[i + 1] * 65536 + b[i + 2] * 256 + b[i + 3]

\* request = struct.pack('!HHI', command_header, command, sample_count)
PackCommand(command, sample_count) ==
    PackH(CommandHeader) \o PackH(command) \o PackI(sample_count)

\* (self.sensor_ip, self.sensor_port), the address every command is sent to
SensorAddress == [ip |-> "sensor_ip", port |-> "sensor_port"]

\* self.socket.sendto(request, (self.sensor_ip, self.sensor_port)) as seen on
\* the wire, with the operation that made the call
Sendto(by, request) == [by |-> by, to |-> SensorAddress, data |-> request]

\* parsed_data = struct.unpack('!IIIiiiiii', data[:36]) and the reading dict
\* built from it, with delta_t = end_time - start_time
ParseReading(data, dt) ==
    [rdt_sequence |-> UnpackU32(data, 1),
     ft_sequence  |-> UnpackU32(data, 5),
     status       |-> UnpackU32(data, 9),
     Fx           |-> UnpackI32(data, 13),
     Fy           |-> UnpackI32(data, 17),
     Fz           |-> UnpackI32(data, 21),
     Tx           |-> UnpackI32(data, 25),
     Ty           |-> UnpackI32(data, 29),
     Tz           |-> UnpackI32(data, 33),
     delta_t      |-> dt]

\* ------------------------------------------------------------- the sensor
\* raw samples the sensor streams (sequence counters below 2^31)
SensorSamples ==
    { [rdt_sequence |-> 1, ft_sequence |-> 10, status |-> 0,
       Fx |-> 500000, Fy |-> -500000, Fz |-> 3,
       Tx |-> 20000000, Ty |-> -1, Tz |-> 0],
      [rdt_sequence |-> 2, ft_sequence |-> 20, status |-> 32768,
       Fx |-> -4, Fy |-> 6, Fz |-> -1000000,
       Tx |-> 5, Ty |-> 10000000, Tz |-> -8] }

\* the 36-byte telemetry datagram of a sample
EncodeSample(s) ==
    PackI(s.rdt_sequence) \o PackI(s.ft_sequence) \o PackI(s.status)
      \o PackI(s.Fx) \o PackI(s.Fy) \o PackI(s.Fz)
      \o PackI(s.Tx) \o PackI(s.Ty) \o PackI(s.Tz)

\* what recvfrom(1024) can return: well-formed, truncated, padded and empty
Datagrams ==
    { EncodeSample(s) : s \in SensorSamples }
      \cup { SubSeq(EncodeSample(s), 1, PacketSize - 1) : s \in SensorSamples }
      \cup { EncodeSample(s) \o <<0>> : s \in SensorSamples }
      \cup { <<>> }

\* end_time - start_time of a successful recvfrom, in ticks
DeltaTs == {1}

\* ------------------------------------------------------------ calibration
\* what get_calibration_data() can return: None (request failed) or a dict of
\* tag -> text; a text is a sequence of characters
Fetches ==
    { None,
      Some([calcpf |-> Some(<<"1", "0", "0", "0", "0", "0", "0">>),
            calcpt |-> Some(<<"1", "0", "0", "0", "0", "0", "0", "0">>)]),
      Some([calcpf |-> Some(<<"0">>),
            calcpt |-> Some(<<"1", "0", "0", "0", "0", "0", "0", "0">>)]),
      Some([calcpf |-> None, calcpt |-> Some(<<"4">>)]),
      Some([calcpf |-> Some(<<"2">>), calcpt |-> Some(<<"x">>)]) }

Digits == <<"0", "1", "2", "3", "4", "5", "6", "7", "8", "9">>
IsDigit(c) == \E i \in 1..10 : Digits[i] = c
DigitVal(c) == (CHOOSE i \in 1..10 : Digits[i] = c) - 1

RECURSIVE DigitsVal(_)
DigitsVal(s) ==
    IF s = <<>> THEN 0
    ELSE DigitsVal(SubSeq(s, 1, Len(s) - 1)) * 10 + DigitVal(s[Len(s)])

\* int(text): Some(n), or None where Python raises ValueError/TypeError
IntOf(text) ==
    IF text = None THEN None                     \* int(None): TypeError
    ELSE LET s == text[1]
             signed == Len(s) > 0 /\ s[1] \in {"-", "+"}
             d == IF signed THEN Tail(s) ELSE s
         IN IF Len(d) > 0 /\ \A i \in 1..Len(d) : IsDigit(d[i])
            THEN Some(IF signed /\ s[1] = "-" THEN -DigitsVal(d) ELSE DigitsVal(d))
            ELSE None                            \* ValueError

\* __init__: the outcome of construction for a fetched calibration
Construct(calibration) ==
    IF calibration = None
    THEN [outcome |-> "AttributeError", calcpf |-> 0, calcpt |-> 0]
    ELSE LET f == IntOf(calibration[1].calcpf)
             t == IntOf(calibration[1].calcpt)
         IN IF f = None \/ t = None
            THEN [outcome |-> "ValueError", calcpf |-> 0, calcpt |-> 0]
            ELSE [outcome |-> "ok", calcpf |-> f[1], calcpt |-> t[1]]

\* ------------------------------------------------------------------ state
VARIABLES
    calibration,     \* what get_calibration_data() returned to __init__
    ctor,            \* outcome of __init__: "ok", "ValueError", "AttributeError"
    calcpf,          \* self.calcpf
    calcpt,          \* self.calcpt
    running,         \* self.running
    latest_reading,  \* self.latest_reading: None or Some(reading)
    lock,            \* owner of self.lock, or LockFree
    thread,          \* self.thread: id of the last thread created, or NoThread
    thr,             \* thr[t]: position and local reading of loop thread t
    sent,            \* the (sender, datagram) pairs handed to socket.sendto so far
    callerPc,        \* position of the lifecycle caller
    ret,             \* the lifecycle call that completed last and how it ended
    slotStale,       \* the slot's reading was published before the latest start() began
    readerPc,        \* position of the accessor caller
    readerOp,        \* the accessor being executed
    readerAcc,       \* the values the accessor has read so far
    readerRet        \* the accessor call that completed last and what it gave

vars == <<calibration, ctor, calcpf, calcpt, running, latest_reading, lock, thread, thr, sent,
          callerPc, ret, slotStale,
          readerPc, readerOp, readerAcc, readerRet>>

driverVars == <<calibration, ctor, calcpf, calcpt>>
callerVars == <<callerPc, ret>>
readerVars == <<readerPc, readerOp, readerAcc, readerRet>>

\* no accessor call has completed since the last one began
NoReturn == [op |-> "none", outcome |-> "none", value |-> None]

Unborn == [pc |-> "unborn", reading |-> None]

Alive(t) == thr[t].pc \notin {"unborn", "dead"}

\* __init__ (lines 17-33), for every calibration the fetch can give
Init ==
    \E c \in Fetches :
        /\ calibration = c
        /\ ctor = Construct(c).outcome
        /\ calcpf = Construct(c).calcpf
        /\ calcpt = Construct(c).calcpt
        /\ running = FALSE
        /\ latest_reading = None
        /\ lock = LockFree
        /\ thread = NoThread
        /\ thr = [t \in Threads |-> Unborn]
        /\ sent = {}
        /\ callerPc = "idle"
        /\ ret = [op |-> "none", outcome |-> "none"]
        /\ slotStale = FALSE
        /\ readerPc = "idle"
        /\ readerOp = "none"
        /\ readerAcc = <<>>
        /\ readerRet = NoReturn

\* ---------------------------------------------------------------- start()
\* line 83: self.running = True
StartCall ==
    /\ ctor = "ok"
    /\ callerPc = "idle"
    /\ \E t \in Threads : thr[t].pc = "unborn"
    /\ running' = TRUE
    /\ slotStale' = (latest_reading # None)
    /\ callerPc' = "start_send"
    /\ UNCHANGED <<driverVars, latest_reading, lock, thread, thr, sent, ret,
                   readerVars>>

\* line 84: self._send_command(command=0x0002, sample_count=0); sendto may
\* raise OSError, which start() does not catch
StartSend ==
    /\ callerPc = "start_send"
    /\ \E ok \in BOOLEAN :
        IF ok
        THEN /\ sent' = sent \cup {Sendto("start", PackCommand(CmdStart, 0))}
             /\ callerPc' = "start_spawn"
             /\ ret' = ret
        ELSE /\ sent' = sent
             /\ callerPc' = "idle"
             /\ ret' = [op |-> "start", outcome |-> "OSError"]
    /\ UNCHANGED <<driverVars, running, latest_reading, lock, thread, thr, slotStale, readerVars>>

\* lines 85-86: self.thread = threading.Thread(...); self.thread.start()
StartSpawn ==
    /\ callerPc = "start_spawn"
    /\ LET t == Cardinality({u \in Threads : thr[u].pc # "unborn"}) + 1
       IN /\ thread' = t
          /\ thr' = [thr EXCEPT ![t].pc = "check"]
    /\ callerPc' = "start_poll"
    /\ UNCHANGED <<driverVars, running, latest_reading, lock, sent, ret, slotStale, readerVars>>

\* StartPoll with a timeout path that also cancels the loop (running = False)
StartPollCancelsOnTimeout ==
    /\ callerPc = "start_poll"
    /\ \E elapsed \in BOOLEAN :
        IF latest_reading # None
        THEN /\ callerPc' = "idle"
             /\ ret' = [op |-> "start", outcome |-> "ok"]
             /\ running' = running
        ELSE IF elapsed
        THEN /\ callerPc' = "idle"
             /\ ret' = [op |-> "start", outcome |-> "TimeoutError"]
             /\ running' = FALSE
        ELSE /\ callerPc' = callerPc
             /\ ret' = ret
             /\ running' = running
    /\ UNCHANGED <<driverVars, latest_reading, lock, thread, thr, sent,
                   slotStale, readerVars>>

\* lines 89-93: one turn of the polling loop; elapsed says whether
\* time.time() - start_time > timeout by now
StartPoll ==
    /\ callerPc = "start_poll"
    /\ \E elapsed \in BOOLEAN :
        IF latest_reading # None
        THEN /\ callerPc' = "idle"
             /\ ret' = [op |-> "start", outcome |-> "ok"]
        ELSE IF elapsed
        THEN /\ callerPc' = "idle"
             /\ ret' = [op |-> "start", outcome |-> "TimeoutError"]
        ELSE /\ callerPc' = callerPc
             /\ ret' = ret
    /\ UNCHANGED <<driverVars, running, latest_reading, lock, thread, thr, sent,
                   slotStale, readerVars>>

\* ----------------------------------------------------------------- stop()
\* line 99: self.running = False
StopCall ==
    /\ ctor = "ok"
    /\ callerPc = "idle"
    /\ running' = FALSE
    /\ callerPc' = "stop_send"
    /\ UNCHANGED <<driverVars, latest_reading, lock, thread, thr, sent, ret, slotStale,
                   readerVars>>

\* line 100: self._send_command(command=0x0000)
StopSend ==
    /\ callerPc = "stop_send"
    /\ \E ok \in BOOLEAN :
        IF ok
        THEN /\ sent' = sent \cup {Sendto("stop", PackCommand(CmdStop, 0))}
             /\ callerPc' = "stop_join"
             /\ ret' = ret
        ELSE /\ sent' = sent
             /\ callerPc' = "idle"
             /\ ret' = [op |-> "stop", outcome |-> "OSError"]
    /\ UNCHANGED <<driverVars, running, latest_reading, lock, thread, thr, slotStale, readerVars>>

\* StopJoin without the join: stop() goes on while the thread is alive
StopJoinNoWait ==
    /\ callerPc = "stop_join"
    /\ IF thread = NoThread
       THEN /\ callerPc' = "idle"
            /\ ret' = [op |-> "stop", outcome |-> "AttributeError"]
       ELSE /\ callerPc' = "stop_lock"
            /\ ret' = ret
    /\ UNCHANGED <<driverVars, running, latest_reading, lock, thread, thr, sent,
                   slotStale, readerVars>>

\* lines 101-102: if self.thread.is_alive(): self.thread.join(); reading
\* self.thread raises AttributeError when start() never assigned it
StopJoin ==
    /\ callerPc = "stop_join"
    /\ IF thread = NoThread
       THEN /\ callerPc' = "idle"
            /\ ret' = [op |-> "stop", outcome |-> "AttributeError"]
       ELSE /\ ~Alive(thread)
            /\ callerPc' = "stop_lock"
            /\ ret' = ret
    /\ UNCHANGED <<driverVars, running, latest_reading, lock, thread, thr, sent,
                   slotStale, readerVars>>

\* line 105: with self.lock:
StopLock ==
    /\ callerPc = "stop_lock"
    /\ lock = LockFree
    /\ lock' = CallerId
    /\ callerPc' = "stop_clear"
    /\ UNCHANGED <<driverVars, running, latest_reading, thread, thr, sent, ret,
                   slotStale, readerVars>>

\* line 106: self.latest_reading = None, and the lock is released
StopClear ==
    /\ callerPc = "stop_clear"
    /\ latest_reading' = None
    /\ lock' = LockFree
    /\ callerPc' = "idle"
    /\ ret' = [op |-> "stop", outcome |-> "ok"]
    /\ slotStale' = FALSE
    /\ UNCHANGED <<driverVars, running, thread, thr, sent, readerVars>>

\* ------------------------------------------------------------ _read_loop
\* LoopCheck as "while True:", never looking at self.running
LoopCheckIgnoresFlag(t) ==
    /\ thr[t].pc = "check"
    /\ thr' = [thr EXCEPT ![t].pc = "recv"]
    /\ UNCHANGED <<driverVars, running, latest_reading, lock, thread, sent,
                   callerVars, slotStale, readerVars>>

\* line 51: while self.running:
LoopCheck(t) ==
    /\ thr[t].pc = "check"
    /\ thr' = [thr EXCEPT ![t].pc = IF running THEN "recv" ELSE "dead"]
    /\ UNCHANGED <<driverVars, running, latest_reading, lock, thread, sent,
                   callerVars, slotStale, readerVars>>

\* RecvData with the size test written len(data) >= 36
RecvDataAtLeast(t, data, dt) ==
    /\ thr[t].pc = "recv"
    /\ thr' = [thr EXCEPT ![t] =
                 IF Len(data) >= PacketSize
                 THEN [pc |-> "lock", reading |-> Some(ParseReading(data, dt))]
                 ELSE [pc |-> "warn", reading |-> None]]
    /\ UNCHANGED <<driverVars, running, latest_reading, lock, thread, sent,
                   callerVars, slotStale, readerVars>>

\* lines 54-73: recvfrom returned datagram data after dt ticks; a 36-byte one
\* is parsed into the local reading, any other is headed for the warning
RecvData(t, data, dt) ==
    /\ thr[t].pc = "recv"
    /\ thr' = [thr EXCEPT ![t] =
                 IF Len(data) = PacketSize
                 THEN [pc |-> "lock", reading |-> Some(ParseReading(data, dt))]
                 ELSE [pc |-> "warn", reading |-> None]]
    /\ UNCHANGED <<driverVars, running, latest_reading, lock, thread, sent,
                   callerVars, slotStale, readerVars>>

\* lines 74-75: except socket.timeout: continue
RecvTimeout(t) ==
    /\ thr[t].pc = "recv"
    /\ thr' = [thr EXCEPT ![t].pc = "check"]
    /\ UNCHANGED <<driverVars, running, latest_reading, lock, thread, sent,
                   callerVars, slotStale, readerVars>>

\* RecvError with no handler: the error ends the thread
RecvErrorExits(t) ==
    /\ thr[t].pc = "recv"
    /\ thr' = [thr EXCEPT ![t].pc = "dead"]
    /\ UNCHANGED <<driverVars, running, latest_reading, lock, thread, sent,
                   callerVars, slotStale, readerVars>>

\* lines 76-77: except Exception as e: (recvfrom raised another error)
RecvError(t) ==
    /\ thr[t].pc = "recv"
    /\ thr' = [thr EXCEPT ![t].pc = "err"]
    /\ UNCHANGED <<driverVars, running, latest_reading, lock, thread, sent,
                   callerVars, slotStale, readerVars>>

\* PublishLock without "with self.lock:": the loop writes unprotected
PublishLockNotTaken(t) ==
    /\ thr[t].pc = "lock"
    /\ thr' = [thr EXCEPT ![t].pc = "publish"]
    /\ UNCHANGED <<driverVars, running, latest_reading, lock, thread, sent, callerVars,
                   slotStale, readerVars>>

\* line 70: with self.lock:
PublishLock(t) ==
    /\ thr[t].pc = "lock"
    /\ lock = LockFree
    /\ lock' = t
    /\ thr' = [thr EXCEPT ![t].pc = "publish"]
    /\ UNCHANGED <<driverVars, running, latest_reading, thread, sent, callerVars, slotStale,
                   readerVars>>

\* line 71: self.latest_reading = reading, and the lock is released
Publish(t) ==
    /\ thr[t].pc = "publish"
    /\ latest_reading' = thr[t].reading
    /\ lock' = LockFree
    /\ thr' = [thr EXCEPT ![t].pc = "check", ![t].reading = None]
    /\ slotStale' = FALSE
    /\ UNCHANGED <<driverVars, running, thread, sent, callerVars, readerVars>>

\* Warn that also drops the published reading
WarnClearsSlot(t) ==
    /\ thr[t].pc = "warn"
    /\ thr' = [thr EXCEPT ![t].pc = "check"]
    /\ latest_reading' = None
    /\ UNCHANGED <<driverVars, running, lock, thread, sent,
                   callerVars, slotStale, readerVars>>

\* line 73: print(f"Warning: Unexpected packet size {len(data)}")
Warn(t) ==
    /\ thr[t].pc = "warn"
    /\ thr' = [thr EXCEPT ![t].pc = "check"]
    /\ UNCHANGED <<driverVars, running, latest_reading, lock, thread, sent,
                   callerVars, slotStale, readerVars>>

\* line 77: print(f"Error in read loop: {e}")
LogError(t) ==
    /\ thr[t].pc = "err"
    /\ thr' = [thr EXCEPT ![t].pc = "check"]
    /\ UNCHANGED <<driverVars, running, latest_reading, lock, thread, sent,
                   callerVars, slotStale, readerVars>>

\* ---------------------------------------------------------------- accessors
RECURSIVE Gcd(_, _)
Gcd(a, b) == IF b = 0 THEN a ELSE Gcd(b, a % b)
Abs(n) == IF n < 0 THEN -n ELSE n

\* a / b of two ints (b # 0): the quotient as the fraction <<n, d>> in lowest
\* terms with d > 0
Quot(a, b) ==
    LET g == Gcd(Abs(a), Abs(b))
        s == IF b < 0 THEN -1 ELSE 1
    IN <<(s * a) \div g, (s * b) \div g>>

ForceKeys == {"Fx", "Fy", "Fz"}
TorqueKeys == {"Tx", "Ty", "Tz"}

\* the keys each accessor reads from self.latest_reading, in order
ReadingKeys == <<"rdt_sequence", "ft_sequence", "status",
                 "Fx", "Fy", "Fz", "Tx", "Ty", "Tz", "delta_t">>
WrenchKeys == <<"Fx", "Fy", "Fz", "Tx", "Ty", "Tz">>
KeysOf(op) == IF op = "get_latest_reading" THEN ReadingKeys ELSE WrenchKeys

\* DivisorOf with the two divisors exchanged
DivisorOfSwapped(k) == IF k \in ForceKeys THEN calcpt ELSE IF k \in TorqueKeys THEN calcpf ELSE 1

\* the divisor applied to key k: self.calcpf, self.calcpt, or none (1)
DivisorOf(k) == IF k \in ForceKeys THEN calcpf ELSE IF k \in TorqueKeys THEN calcpt ELSE 1

\* one entry of the returned dict or list: self.latest_reading[k] / divisor
Entry(reading, k) ==
    IF k \in ForceKeys \cup TorqueKeys THEN Quot(reading[k], DivisorOf(k)) ELSE reading[k]

\* the dict get_latest_reading returns, from the ten values read
ReadingDict(acc) ==
    [rdt_sequence |-> acc[1], ft_sequence |-> acc[2], status |-> acc[3],
     Fx |-> acc[4], Fy |-> acc[5], Fz |-> acc[6],
     Tx |-> acc[7], Ty |-> acc[8], Tz |-> acc[9], delta_t |-> acc[10]]

Result(op, acc) == IF op = "get_latest_reading" THEN ReadingDict(acc) ELSE acc

\* a caller invokes get_latest_reading() or get_latest_wrench()
ReaderCall(op) ==
    /\ ctor = "ok"
    /\ readerPc = "idle"
    /\ readerPc' = "lock"
    /\ readerOp' = op
    /\ readerRet' = NoReturn
    /\ UNCHANGED <<driverVars, running, latest_reading, lock, thread, thr, sent,
                   callerVars, slotStale, readerAcc>>

\* ReaderLock without "with self.lock:": the accessor reads unprotected
ReaderLockNotTaken ==
    /\ readerPc = "lock"
    /\ readerPc' = "check"
    /\ UNCHANGED <<driverVars, running, latest_reading, lock, thread, thr, sent,
                   callerVars, slotStale, readerOp, readerAcc, readerRet>>

\* lines 115, 137: with self.lock:
ReaderLock ==
    /\ readerPc = "lock"
    /\ lock = LockFree
    /\ lock' = ReaderId
    /\ readerPc' = "check"
    /\ UNCHANGED <<driverVars, running, latest_reading, thread, thr, sent,
                   callerVars, slotStale, readerOp, readerAcc, readerRet>>

\* ReaderCheck without the "is None" test: the reads follow at once
ReaderCheckNoNoneTest ==
    /\ readerPc = "check"
    /\ readerRet' = readerRet
    /\ readerPc' = "read"
    /\ lock' = lock
    /\ readerAcc' = <<>>
    /\ UNCHANGED <<driverVars, running, latest_reading, thread, thr, sent,
                   callerVars, slotStale, readerOp>>

\* ReaderCheck whose "return None" leaves the with block without releasing
ReaderCheckKeepsLock ==
    /\ readerPc = "check"
    /\ IF latest_reading = None
       THEN /\ readerRet' = [op |-> readerOp, outcome |-> "ok", value |-> None]
            /\ readerPc' = "idle"
            /\ lock' = lock
       ELSE IF readerOp = "get_latest_reading" /\ (calcpf = 0 \/ calcpt = 0)
       THEN /\ readerRet' = [op |-> readerOp, outcome |-> "ok", value |-> latest_reading]
            /\ readerPc' = "idle"
            /\ lock' = LockFree
       ELSE /\ readerRet' = readerRet
            /\ readerPc' = "read"
            /\ lock' = lock
    /\ readerAcc' = <<>>
    /\ UNCHANGED <<driverVars, running, latest_reading, thread, thr, sent,
                   callerVars, slotStale, readerOp>>

\* lines 116-119, 133-134, 138-139: return None on an empty slot; the raw
\* slot when get_latest_reading finds a zero divisor; else go on to the reads
ReaderCheck ==
    /\ readerPc = "check"
    /\ IF latest_reading = None
       THEN /\ readerRet' = [op |-> readerOp, outcome |-> "ok", value |-> None]
            /\ readerPc' = "idle"
            /\ lock' = LockFree
       ELSE IF readerOp = "get_latest_reading" /\ (calcpf = 0 \/ calcpt = 0)
       THEN /\ readerRet' = [op |-> readerOp, outcome |-> "ok", value |-> latest_reading]
            /\ readerPc' = "idle"
            /\ lock' = LockFree
       ELSE /\ readerRet' = readerRet
            /\ readerPc' = "read"
            /\ lock' = lock
    /\ readerAcc' = <<>>
    /\ UNCHANGED <<driverVars, running, latest_reading, thread, thr, sent,
                   callerVars, slotStale, readerOp>>

\* lines 121-132, 140-147: the next self.latest_reading[k] / divisor; after
\* the last one the value is returned and the lock released.  Subscripting
\* None raises TypeError and a zero divisor ZeroDivisionError; both leave the
\* with block, releasing the lock
ReaderRead ==
    /\ readerPc = "read"
    /\ LET keys == KeysOf(readerOp)
           k == keys[Len(readerAcc) + 1]
           raise(e) == /\ readerRet' = [op |-> readerOp, outcome |-> e, value |-> None]
                       /\ readerAcc' = <<>>
                       /\ readerPc' = "idle"
                       /\ lock' = LockFree
       IN IF latest_reading = None THEN raise("TypeError")
          ELSE IF DivisorOf(k) = 0 THEN raise("ZeroDivisionError")
          ELSE LET acc == Append(readerAcc, Entry(latest_reading[1], k))
               IN IF Len(acc) < Len(keys)
                  THEN /\ readerAcc' = acc
                       /\ readerRet' = readerRet
                       /\ readerPc' = readerPc
                       /\ lock' = lock
                  ELSE /\ readerAcc' = <<>>
                       /\ readerRet' = [op |-> readerOp, outcome |-> "ok",
                                        value |-> Some(Result(readerOp, acc))]
                       /\ readerPc' = "idle"
                       /\ lock' = LockFree
    /\ UNCHANGED <<driverVars, running, latest_reading, thread, thr, sent,
                   callerVars, slotStale, readerOp>>

\* ------------------------------------------------------ the whole program
Lifecycle ==
    \/ StartCall \/ StartSend \/ StartSpawn \/ StartPoll
    \/ StopCall \/ StopSend \/ StopJoin \/ StopLock \/ StopClear

Loop(t) ==
    \/ LoopCheck(t)
    \/ \E data \in Datagrams, dt \in DeltaTs : RecvData(t, data, dt)
    \/ RecvTimeout(t)
    \/ RecvError(t)
    \/ PublishLock(t)
    \/ Publish(t)
    \/ Warn(t)
    \/ LogError(t)

Reader ==
    \/ \E op \in {"get_latest_reading", "get_latest_wrench"} : ReaderCall(op)
    \/ ReaderLock
    \/ ReaderCheck
    \/ ReaderRead

Next == Lifecycle \/ (\E t \in Threads : Loop(t)) \/ Reader

Spec == Init /\ [][Next]_vars

\* ----------------------------------------------------- the silent sensor
\* scripts/test.py on a sensor that never answers: one start(), then stop()
\* from the finally block, while other callers may use the accessors
QuietStart == ret.op = "none" /\ StartCall
QuietStop == ret.op = "start" /\ StopCall

QuietNext ==
    \/ QuietStart \/ StartSend \/ StartSpawn \/ StartPoll
    \/ QuietStop \/ StopSend \/ StopJoin \/ StopLock \/ StopClear
    \/ \E t \in Threads : LoopCheck(t) \/ RecvTimeout(t)
    \/ \E op \in {"get_latest_reading", "get_latest_wrench"} : ReaderCall(op)
    \/ ReaderLock
    \/ ReaderCheck

\* Scheduling: every thread that can run eventually runs (the receive is
\* bounded by the 1 s socket timeout), a call in progress is carried on, and
\* stop() waiting for the lock eventually gets it although the accessors
\* take and release it in between.
QuietSpec ==
    /\ Init /\ [][QuietNext]_vars
    /\ \A t \in Threads : WF_vars(LoopCheck(t)) /\ WF_vars(RecvTimeout(t))
    /\ WF_vars(StopSend) /\ WF_vars(StopJoin) /\ SF_vars(StopLock) /\ WF_vars(StopClear)
    /\ WF_vars(ReaderLock) /\ WF_vars(ReaderCheck)

\* ------------------------------------------------------- fair scheduling
\* Every thread inside a critical section goes on to leave it, and an
\* accessor waiting for the lock eventually gets it although the loop
\* threads and stop() take and release it in between.
FairSpec ==
    /\ Spec
    /\ \A t \in Threads : WF_vars(Publish(t))
    /\ WF_vars(StopClear)
    /\ SF_vars(ReaderLock) /\ WF_vars(ReaderCheck) /\ WF_vars(ReaderRead)

\* ================================================================= claims
StartPcs == {"start_send", "start_spawn", "start_poll"}
StopPcs == {"stop_send", "stop_join", "stop_lock", "stop_clear"}
StartCmd == PackCommand(CmdStart, 0)
StopCmd == PackCommand(CmdStop, 0)

\* the driver is Idle: freshly constructed, or stop() has returned, and no
\* lifecycle call is in progress
Idle ==
    /\ ctor = "ok"
    /\ callerPc = "idle"
    /\ ret.op = "none" \/ (ret.op = "stop" /\ ret.outcome = "ok")

\* the accessor call returns (or raises) in this step
ReaderReturns == readerPc # "idle" /\ readerPc' = "idle"

\* C1 (as claimed): an accessor call that completes while the driver is Idle
\* fails with NotRunning, and the driver state and the slot are unchanged.
C1_IdleAccessorFails ==
    [][(Idle /\ ReaderReturns) =>
          /\ readerRet'.outcome = "NotRunning"
          /\ UNCHANGED <<running, latest_reading, thread, thr>>]_vars

\* C1 (amended): while the driver is Idle no step of an accessor call changes
\* the driver state or the slot, the call never fails with NotRunning, and
\* when it completes on an empty slot it returns None.
C1_IdleAccessorReturnsSlot ==
    [][(Idle /\ readerVars' # readerVars) =>
          /\ UNCHANGED <<driverVars, running, latest_reading, thread, thr, sent,
                         callerVars, slotStale>>
          /\ readerRet'.outcome # "NotRunning"
          /\ (ReaderReturns /\ latest_reading = None) =>
                readerRet' = [op |-> readerOp, outcome |-> "ok", value |-> None]]_vars

\* C1 witness: on a freshly constructed driver get_latest_wrench() returned None
C1_Witness ==
    /\ Idle /\ ret.op = "none"
    /\ readerPc = "idle"
    /\ readerRet = [op |-> "get_latest_wrench", outcome |-> "ok", value |-> None]

\* C2 (as claimed): once stop() has returned, and until the next lifecycle
\* call, no acquisition-loop thread is alive and the slot is empty.
C2_StopLeavesNoLoop ==
    (callerPc = "idle" /\ ret = [op |-> "stop", outcome |-> "ok"]) =>
        /\ \A t \in Threads : ~Alive(t)
        /\ latest_reading = None

\* C3 (as claimed): once start() has returned successfully, and until the next
\* lifecycle call, the slot holds a reading, and not one that was published
\* before that start() call began.
C3_FreshAfterStart ==
    (callerPc = "idle" /\ ret = [op |-> "start", outcome |-> "ok"]) =>
        /\ latest_reading # None
        /\ ~slotStale

\* what an accessor returns for a slot holding reading r
ViewOf(op, r) ==
    IF op = "get_latest_reading" /\ (calcpf = 0 \/ calcpt = 0) THEN r
    ELSE Result(op, [i \in 1..Len(KeysOf(op)) |-> Entry(r, KeysOf(op)[i])])

\* the readings the loop can build from the well-formed datagrams
PacketReadings ==
    { ParseReading(EncodeSample(s), dt) : s \in SensorSamples, dt \in DeltaTs }

\* C4: every value an accessor returns, and every prefix of values it has
\* read so far, comes from one single received packet.
C4_NoTornRead ==
    /\ (readerRet.outcome = "ok" /\ readerRet.value # None) =>
          \E r \in PacketReadings : readerRet.value[1] = ViewOf(readerRet.op, r)
    /\ readerPc = "read" =>
          \E r \in PacketReadings :
              \A i \in 1..Len(readerAcc) : readerAcc[i] = Entry(r, KeysOf(readerOp)[i])

\* C4 witness: an accessor is part-way through its reads of one packet while
\* a loop thread waits for the lock with another packet
C4_Witness ==
    /\ readerPc = "read" /\ Len(readerAcc) > 0
    /\ \E t \in Threads :
          /\ thr[t].pc = "lock"
          /\ thr[t].reading[1].rdt_sequence # latest_reading[1].rdt_sequence

\* C5 (as claimed): a receive timeout of a running loop makes the loop send
\* the start-stream command again, and the loop keeps running.
C5_TimeoutResends ==
    [][\A t \in Threads :
          (thr[t].pc = "recv" /\ thr'[t].pc = "check") =>
              Sendto("loop", StartCmd) \in sent']_vars

\* C6: with a silent sensor, a stop() in progress completes; once it waits
\* for a loop thread it returns normally; and when it has returned the driver
\* is Idle: flag false, no loop thread alive, slot empty.
C6_StopReturns ==
    /\ [](callerPc \in StopPcs => <>(callerPc = "idle"))
    /\ []((callerPc = "stop_join" /\ thread # NoThread) =>
            <>(callerPc = "idle" /\ ret = [op |-> "stop", outcome |-> "ok"]))
    /\ []((callerPc = "idle" /\ ret = [op |-> "stop", outcome |-> "ok"]) =>
            (~running /\ latest_reading = None /\ \A t \in Threads : ~Alive(t)))

\* C6 witness: stop() waits for a loop thread that is blocked in recvfrom
C6_Witness ==
    /\ callerPc = "stop_join" /\ thread # NoThread
    /\ thr[thread].pc = "recv"

\* C7 (as claimed): the body of start() is never executed when the lifecycle
\* call before it was a start() that returned successfully (driver Running).
C7_StartOnlyFromIdle ==
    callerPc \in StartPcs => ~(ret = [op |-> "start", outcome |-> "ok"])

\* C8 (as claimed): a stop() completed on a driver that never spawned a loop
\* returned normally or failed with NotRunning (a transport fault of the
\* command channel aside), and the driver is Idle with an empty slot.
C8_StopWhenIdle ==
    (callerPc = "idle" /\ ret.op = "stop" /\ thread = NoThread) =>
        /\ ret.outcome \in {"ok", "NotRunning", "OSError"}
        /\ ~running
        /\ latest_reading = None

\* C9: start() ends its wait successfully only on a non-empty slot, else with
\* TimeoutError on an empty one; no step of start() clears the flag or sends a
\* stop-stream command, and at the timeout the loop it spawned is alive.
C9_StartTimeout ==
    /\ [][(callerPc = "start_poll" /\ callerPc' = "idle") =>
             IF latest_reading # None
             THEN ret' = [op |-> "start", outcome |-> "ok"]
             ELSE /\ ret' = [op |-> "start", outcome |-> "TimeoutError"]
                  /\ Alive(thread)']_vars
    /\ [][(callerPc \in StartPcs) =>
             /\ running'
             /\ sent' \ sent \subseteq {Sendto("start", StartCmd)}
             /\ \A t \in Threads : Alive(t) => Alive(t)']_vars

\* C9 witness: start() has failed with TimeoutError and its loop is running
C9_Witness ==
    /\ callerPc = "idle" /\ ret = [op |-> "start", outcome |-> "TimeoutError"]
    /\ running /\ Alive(thread) /\ latest_reading = None

ScaledFrom(v, r) ==
    /\ calcpf # 0 /\ calcpt # 0
    /\ v.rdt_sequence = r.rdt_sequence
    /\ v.ft_sequence = r.ft_sequence
    /\ v.status = r.status
    /\ v.Fx = Quot(r.Fx, calcpf) /\ v.Fy = Quot(r.Fy, calcpf) /\ v.Fz = Quot(r.Fz, calcpf)
    /\ v.Tx = Quot(r.Tx, calcpt) /\ v.Ty = Quot(r.Ty, calcpt) /\ v.Tz = Quot(r.Tz, calcpt)

\* get_latest_reading() returns in this step from a slot that holds a reading
ReadingReturns ==
    ReaderReturns /\ readerOp = "get_latest_reading" /\ latest_reading # None

\* C11 (as claimed): whatever calibration the constructor accepted, the
\* reading get_latest_reading() returns for a published packet has the forces
\* divided by calcpf, the torques divided by calcpt, and the counters and
\* status passed through.
C11_AlwaysScaled ==
    [][ReadingReturns =>
          /\ readerRet'.outcome = "ok"
          /\ readerRet'.value # None
          /\ ScaledFrom(readerRet'.value[1], latest_reading[1])]_vars

\* C11 (amended): when both accepted divisors are non-zero the returned
\* reading is scaled as claimed; when one of them is zero get_latest_reading()
\* returns the raw reading of the slot, all six components unscaled.
C11_ScaledUnlessZeroDivisor ==
    [][ReadingReturns =>
          /\ readerRet'.outcome = "ok"
          /\ readerRet'.value # None
          /\ IF calcpf # 0 /\ calcpt # 0
             THEN ScaledFrom(readerRet'.value[1], latest_reading[1])
             ELSE readerRet'.value[1] = latest_reading[1]]_vars

\* C11 witness: with calcpf = 1000000 and calcpt = 10000000 a reading was
\* returned with Fx = 1/2 (raw 500000) and Tx = 2 (raw 20000000)
C11_Witness ==
    /\ calcpf = 1000000 /\ calcpt = 10000000
    /\ readerRet.op = "get_latest_reading" /\ readerRet.outcome = "ok"
    /\ readerRet.value # None
    /\ readerRet.value[1].Fx = <<1, 2>>
    /\ readerRet.value[1].Tx = <<2, 1>>
    /\ readerRet.value[1].status = 0

\* C12: every datagram handed to sendto is the 8-byte big-endian record
\* 0x1234, command code, sample count 0, addressed to the sensor; start()
\* sends only code 0x0002, stop() only code 0x0000, nothing else sends, and
\* one step sends at most one datagram.
C12_CommandFormat ==
    /\ [](\A m \in sent :
             /\ m.to = SensorAddress
             /\ Len(m.data) = 8
             /\ \/ m.by = "start" /\ m.data = <<18, 52, 0, 2, 0, 0, 0, 0>>
                \/ m.by = "stop" /\ m.data = <<18, 52, 0, 0, 0, 0, 0, 0>>)
    /\ [][/\ Cardinality(sent' \ sent) <= 1
          /\ sent \subseteq sent'
          /\ sent' # sent => callerPc \in {"start_send", "stop_send"}]_vars

\* C12 witness: start() and stop() have each sent their command
C12_Witness ==
    /\ \E m \in sent : m.by = "start"
    /\ \E m \in sent : m.by = "stop"
    /\ callerPc = "idle" /\ ret = [op |-> "stop", outcome |-> "ok"]

\* the fetch gave a mapping with both calcpf and calcpt present and numeric
BothNumeric ==
    /\ calibration # None
    /\ IntOf(calibration[1].calcpf) # None
    /\ IntOf(calibration[1].calcpt) # None

\* C13 (as claimed): construction succeeds exactly when the fetch gave both
\* calcpf and calcpt as numeric values, and in every other case (no mapping,
\* a missing key, a non-numeric value) it fails with ValueError.
C13_InvalidCalibration ==
    IF BothNumeric THEN ctor = "ok" ELSE ctor = "ValueError"

\* C14 (as claimed): stop() sends the stop-stream command only after it has
\* waited for the loop thread: the command is never sent while the thread
\* that stop() joins is alive.
C14_StopSentAfterJoin ==
    [][(callerPc = "stop_send" /\ callerPc' = "stop_join" /\ thread # NoThread) =>
          ~Alive(thread)]_vars

\* C14 (amended): the steps of one stop() call come in the order flag
\* cleared, stop-stream command sent, loop thread waited for until it has
\* finished, slot cleared; no step does the work of another.
C14_StopOrder ==
    [][/\ (callerPc = "idle" /\ callerPc' \in StopPcs) =>
             /\ callerPc' = "stop_send" /\ ~running'
             /\ sent' = sent /\ latest_reading' = latest_reading
       /\ (callerPc = "stop_send" /\ callerPc' # callerPc) =>
             /\ ~running' /\ latest_reading' = latest_reading
             /\ \/ callerPc' = "stop_join" /\ sent' = sent \cup {Sendto("stop", StopCmd)}
                \/ callerPc' = "idle" /\ ret'.outcome = "OSError" /\ sent' = sent
       /\ (callerPc = "stop_join" /\ callerPc' # callerPc) =>
             /\ ~running' /\ sent' = sent /\ latest_reading' = latest_reading
             /\ IF thread = NoThread
                THEN callerPc' = "idle" /\ ret'.outcome = "AttributeError"
                ELSE callerPc' = "stop_lock" /\ ~Alive(thread) /\ ~Alive(thread)'
       /\ (callerPc = "stop_lock" /\ callerPc' # callerPc) =>
             /\ callerPc' = "stop_clear" /\ ~running'
             /\ sent' = sent /\ latest_reading' = latest_reading
       /\ (callerPc = "stop_clear" /\ callerPc' # callerPc) =>
             /\ callerPc' = "idle" /\ ret' = [op |-> "stop", outcome |-> "ok"]
             /\ ~running' /\ sent' = sent /\ latest_reading' = None]_vars

\* C14 witness: stop() has sent the stop-stream command and now waits for a
\* loop thread that is still alive
C14_Witness ==
    /\ callerPc = "stop_join" /\ thread # NoThread /\ Alive(thread)
    /\ Sendto("stop", StopCmd) \in sent /\ ~running

\* C15 (as claimed): every write of the slot, every step of an accessor that
\* reads it, and the readiness test by which start() ends its wait, is made by
\* a thread that holds the lock.
C15_AllAccessLocked ==
    [][/\ latest_reading' # latest_reading => lock # LockFree
       /\ (readerPc \in {"check", "read"} /\ readerVars' # readerVars) => lock = ReaderId
       /\ (callerPc = "start_poll" /\ callerPc' # callerPc) => lock = CallerId]_vars

\* C15 (amended): the loop's publish, the clear in stop() and the reads of
\* both accessors are made holding the lock, and the slot changes in no other
\* step; start() tests the slot without ever holding the lock.
C15_LockedExceptStartPoll ==
    /\ [](/\ \A t \in Threads : thr[t].pc = "publish" => lock = t
          /\ callerPc = "stop_clear" => lock = CallerId
          /\ readerPc \in {"check", "read"} => lock = ReaderId
          /\ callerPc \in StartPcs => lock # CallerId)
    /\ [][latest_reading' # latest_reading =>
             \/ \E t \in Threads : thr[t].pc = "publish" /\ lock = t /\ thr'[t].pc = "check"
             \/ callerPc = "stop_clear" /\ lock = CallerId /\ callerPc' = "idle"]_vars

\* C15 witness: start() is testing the slot while a loop thread holds the
\* lock and is about to write it
C15_Witness ==
    /\ callerPc = "start_poll" /\ latest_reading = None
    /\ \E t \in Threads : thr[t].pc = "publish" /\ lock = t

\* C16: a loop thread ends only at its loop test, with the flag false after a
\* stop() call cleared it; a valid packet, a wrong-size packet, a timeout or
\* another receive error leaves the thread alive, and no step of a loop
\* thread changes what a caller of start(), stop() or an accessor gets.
C16_LoopExitsOnlyOnCancel ==
    [][\A t \in Threads :
          (Alive(t) /\ thr'[t] # thr[t]) =>
              /\ UNCHANGED <<callerVars, readerVars>>
              /\ thr[t].pc \in {"recv", "warn", "err", "lock", "publish"} => Alive(t)'
              /\ ~Alive(t)' =>
                    /\ thr[t].pc = "check" /\ ~running
                    /\ callerPc \in StopPcs \/ ret.op = "stop"]_vars

\* C16 witness: one loop thread has ended after a stop(), and the loop of a
\* later start() is handling a receive error with the flag set
C16_Witness ==
    /\ running
    /\ \E t, u \in Threads : thr[t].pc = "dead" /\ thr[u].pc = "err"

\* C17 (as claimed): at most one acquisition-loop thread is alive.
C17_AtMostOneLoop ==
    Cardinality({t \in Threads : Alive(t)}) <= 1

\* the last lifecycle call to complete was a successful start(), and no
\* stop() call has begun since
StartedNotStopped ==
    /\ ret = [op |-> "start", outcome |-> "ok"]
    /\ callerPc \notin StopPcs

C19_WrenchIsProjection ==
    [][(ReaderReturns /\ readerOp = "get_latest_wrench") =>
          IF latest_reading = None
          THEN readerRet' = [op |-> readerOp, outcome |-> "ok", value |-> None]
          ELSE /\ readerRet'.outcome = "ok"
               /\ readerRet'.value # None
               /\ LET v == ViewOf("get_latest_reading", latest_reading[1])
                  IN readerRet'.value[1] = <<v.Fx, v.Fy, v.Fz, v.Tx, v.Ty, v.Tz>>]_vars

\* C20: the lock is held only between a "with self.lock:" and the end of its
\* block (a loop thread about to publish, stop() about to clear, an accessor
\* testing or reading the slot), never by a thread that is receiving,
\* sending, sleeping in start(), joining or back outside its call; and under
\* fair scheduling every accessor call returns.
C20_LockNeverBlocks ==
    /\ [](/\ lock \in {LockFree, CallerId, ReaderId} \cup Threads
          /\ lock = ReaderId <=> readerPc \in {"check", "read"}
          /\ lock = CallerId <=> callerPc = "stop_clear"
          /\ \A t \in Threads : lock = t <=> thr[t].pc = "publish")
    /\ (readerPc # "idle") ~> (readerPc = "idle")

\* C20 witness: an accessor waits for the lock, which a loop thread holds,
\* while stop() waits for that thread to finish
C20_Witness ==
    /\ readerPc = "lock"
    /\ callerPc = "stop_join" /\ thread # NoThread
    /\ lock = thread /\ thr[thread].pc = "publish"
====
